---- MODULE Spec2Model ----
(***************************************************************************)
(* Model of src/medication_parser.py: class MedicationParser.              *)
(*                                                                         *)
(* Python values are encoded as follows.                                   *)
(*   str            a TLA+ string (Len, SubSeq and \o work on strings)     *)
(*   list           a sequence                                             *)
(*   dict (record)  a record                                               *)
(*   Optional[X]    None is <<>>, a present value x is <<x>>               *)
(*   outcome of a call: [kind |-> "return", value |-> v] when the call     *)
(*                  returns v, [kind |-> "raise", value |-> <<exc, arg>>]  *)
(*                  when it raises exception exc(arg).                     *)
(* String positions are Python's (0-based); Slice(s, a, b) is s[a:b].      *)
(* Texts are ASCII: \d is 0-9, \s is space, tab, newline, return and form   *)
(* feed, and lower() and capitalize() change the letters A-Z and a-z only. *)
(*                                                                         *)
(* The file uses Optional, Dict and List in its annotations without        *)
(* importing them.  An interpreter that evaluates annotations when a       *)
(* function is defined raises NameError in the class body, before any      *)
(* method exists; the model describes the methods as they run where the    *)
(* class is defined (annotations evaluated lazily, or typing's names in    *)
(* scope).                                                                 *)
(***************************************************************************)
EXTENDS Integers, Sequences, FiniteSets, TLC

VARIABLES
    medications,   \* self.medications: the stored result of the last parse
    op,            \* name of the last method called on the instance
    text,          \* the text argument of the last call
    medication,    \* the medication argument of the last is_negated call
    ret,           \* outcome of the last call (return value or exception)
    lastParse,     \* history: <<>> or <<[text, out]>> of the most recent parse call
    watch,         \* history: a text, chosen at the start, whose parse calls are compared
    watched        \* history: outcomes of the last two parse(watch) calls, latest first

vars == <<medications, op, text, medication, ret, lastParse, watch, watched>>

None == <<>>
Some(x) == <<x>>

\* Bind(e, F) is F(e) with e evaluated once: a local variable assigned once.
Bind(e, F(_)) == CHOOSE r \in { F(x) : x \in {e} } : TRUE
Return(v) == [kind |-> "return", value |-> v]
Raise(exc, arg) == [kind |-> "raise", value |-> <<exc, arg>>]

----------------------------------------------------------------------------
(* Python str primitives                                                   *)

UPPERCASE == "ABCDEFGHIJKLMNOPQRSTUVWXYZ"
LOWERCASE == "abcdefghijklmnopqrstuvwxyz"
DIGITS == "0123456789"
WHITESPACE == " \t\n\r\f"

CharAt(s, i) == SubSeq(s, i + 1, i + 1)          \* s[i], 0-based
Slice(s, a, b) == SubSeq(s, a + 1, b)            \* s[a:b] for 0 <= a, b <= len(s)
CharsOf(class) == { SubSeq(class, k, k) : k \in 1..Len(class) }
DigitChars == CharsOf(DIGITS)
SpaceChars == CharsOf(WHITESPACE)
IsDigit(c) == c \in DigitChars                   \* \d
IsSpace(c) == c \in SpaceChars                   \* \s

RECURSIVE CharMap(_, _, _)
CharMap(from, to, k) ==                          \* from[j] :> to[j] for j >= k
    IF k = Len(from) THEN SubSeq(from, k, k) :> SubSeq(to, k, k)
    ELSE (SubSeq(from, k, k) :> SubSeq(to, k, k)) @@ CharMap(from, to, k + 1)

ToLower == CharMap(UPPERCASE, LOWERCASE, 1)
ToUpper == CharMap(LOWERCASE, UPPERCASE, 1)

LowerChar(c) == IF c \in DOMAIN ToLower THEN ToLower[c] ELSE c
UpperChar(c) == IF c \in DOMAIN ToUpper THEN ToUpper[c] ELSE c

RECURSIVE Lower(_)
Lower(s) ==                                      \* s.lower(), character by character
    IF Len(s) = 0 THEN ""
    ELSE IF Len(s) = 1 THEN LowerChar(s)
    ELSE LET h == Len(s) \div 2
         IN Lower(SubSeq(s, 1, h)) \o Lower(SubSeq(s, h + 1, Len(s)))

Capitalize(s) ==                                 \* s.capitalize()
    IF s = "" THEN ""
    ELSE UpperChar(SubSeq(s, 1, 1)) \o Lower(SubSeq(s, 2, Len(s)))

StartsAt(s, sub, i) ==                           \* s.startswith(sub, i)
    /\ i + Len(sub) <= Len(s)
    /\ Slice(s, i, i + Len(sub)) = sub

Min(S) == CHOOSE i \in S : \A j \in S : i <= j

Find(s, sub) ==                                  \* s.find(sub)
    Bind({ i \in 0..(Len(s) - Len(sub)) : StartsAt(s, sub, i) },
         LAMBDA occurrences : IF occurrences = {} THEN -1 ELSE Min(occurrences))

Contains(sub, s) == Find(s, sub) # -1            \* sub in s

Max(a, b) == IF a >= b THEN a ELSE b

RECURSIVE Join(_, _)
Join(sep, parts) ==                              \* sep.join(parts)
    IF Len(parts) = 0 THEN ""
    ELSE IF Len(parts) = 1 THEN parts[1]
    ELSE parts[1] \o sep \o Join(sep, Tail(parts))

----------------------------------------------------------------------------
(* Class-level tables                                                      *)

\* DOSE_PATTERN = r'(\d+\.?\d*)\s*(mg|mcg|g|ml|units?)': the alternatives of
\* group 2 in the order the regex engine tries them (units? is greedy).
DOSE_UNITS == <<"mg", "mcg", "g", "ml", "units", "unit">>

FREQUENCY_PATTERNS ==
    ( "twice daily" :> <<"bid", "twice daily", "twice a day", "2x daily">> ) @@
    ( "three times daily" :> <<"tid", "three times daily", "3x daily">> ) @@
    ( "four times daily" :> <<"qid", "four times daily", "4x daily">> ) @@
    ( "as needed" :> <<"prn", "as needed", "as required">> ) @@
    ( "at bedtime" :> <<"hs", "at bedtime", "at night", "qhs">> )

\* The dict literal names 'intravenous' twice; the dict keeps one entry, at
\* the position of the first, so the iteration order is the one below.
ROUTE_PATTERNS == <<
    [key |-> "intravenous", patterns |-> <<"iv", "intravenous", "intravenously">>],
    [key |-> "intramuscular", patterns |-> <<"im", "intramuscular">>],
    [key |-> "subcutaneous", patterns |-> <<"sc", "subq", "subcutaneous">>],
    [key |-> "topical", patterns |-> <<"topical", "topically", "apply">>] >>

NEGATION_PATTERNS == <<
    "negative for ", "none ", "never ", "stopped ",
    "discontinued ", "allergic to " >>

KNOWN_MEDICATIONS == <<
    "metformin", "lisinopril", "amlodipine", "omeprazole",
    "atorvastatin", "simvastatin", "levothyroxine", "metoprolol",
    "losartan", "gabapentin", "hydrochlorothiazide", "furosemide",
    "aspirin", "ibuprofen", "acetaminophen", "prednisone",
    "amoxicillin", "azithromycin", "ciprofloxacin", "insulin" >>

\* check_order with 'at bedtime' moved to the front
check_order_bedtime_first == <<
    "at bedtime", "four times daily", "three times daily", "twice daily",
    "as needed", "daily" >>

check_order == <<
    "four times daily", "three times daily", "twice daily",
    "at bedtime", "as needed", "daily" >>

NEGATION_WINDOW == 50

----------------------------------------------------------------------------
(* re.search(DOSE_PATTERN, s): leftmost start, then the regex engine's       *)
(* preference among the ways to match there (every quantifier is greedy,   *)
(* alternatives of group 2 are tried left to right).                       *)

RECURSIVE DigitRun(_, _)
DigitRun(s, i) ==                                \* digits of s from index i on
    IF i < Len(s) /\ IsDigit(CharAt(s, i)) THEN 1 + DigitRun(s, i + 1) ELSE 0

RECURSIVE SpaceRun(_, _)
SpaceRun(s, i) ==                                \* whitespace of s from index i on
    IF i < Len(s) /\ IsSpace(CharAt(s, i)) THEN 1 + SpaceRun(s, i + 1) ELSE 0

\* The ways (\d+\.?\d*) matches s at index i: n1 characters for \d+, dot for
\* \.? and n2 for \d*.
DoseHeads(s, i) ==
    { h \in [n1 : 1..DigitRun(s, i), dot : {0, 1}, n2 : 0..Len(s)] :
        /\ h.dot = 1 => StartsAt(s, ".", i + h.n1)
        /\ h.n2 <= DigitRun(s, i + h.n1 + h.dot) }

\* The ways \s*(mg|mcg|g|ml|units?) matches s at index j: ws characters for
\* \s* and alternative u of group 2.
DoseTails(s, j) ==
    { c \in [ws : 0..SpaceRun(s, j), u : 1..Len(DOSE_UNITS)] :
        StartsAt(s, DOSE_UNITS[c.u], j + c.ws) }

\* The ways DOSE_PATTERN matches s at index i.
DoseCandidates(s, i) ==
    UNION { { [n1 |-> h.n1, dot |-> h.dot, n2 |-> h.n2, ws |-> c.ws, u |-> c.u] :
                c \in DoseTails(s, i + h.n1 + h.dot + h.n2) } :
            h \in DoseHeads(s, i) }

\* c is tried by the backtracking engine no later than d
TriedFirst(c, d) ==
    \/ c.n1 > d.n1
    \/ c.n1 = d.n1 /\ c.dot > d.dot
    \/ c.n1 = d.n1 /\ c.dot = d.dot /\ c.n2 > d.n2
    \/ c.n1 = d.n1 /\ c.dot = d.dot /\ c.n2 = d.n2 /\ c.ws > d.ws
    \/ c.n1 = d.n1 /\ c.dot = d.dot /\ c.n2 = d.n2 /\ c.ws = d.ws /\ c.u <= d.u

DoseMatchAt(s, i) ==                             \* re.match(DOSE_PATTERN, s[i:])
    Bind(DoseCandidates(s, i), LAMBDA C :
        IF C = {} THEN None
        ELSE Bind(CHOOSE c \in C : \A d \in C : TriedFirst(c, d), LAMBDA c :
                Some([start |-> i,
                      group1 |-> Slice(s, i, i + c.n1 + c.dot + c.n2),
                      group2 |-> DOSE_UNITS[c.u]])))

\* DoseSearch reporting the rightmost match instead of the leftmost
DoseSearchLast(s) ==
    Bind({ i \in 0..(Len(s) - 1) : DoseMatchAt(s, i) # None }, LAMBDA starts :
        IF starts = {} THEN None
        ELSE DoseMatchAt(s, CHOOSE i \in starts : \A j \in starts : j <= i))

DoseSearch(s) ==                                 \* re.search(DOSE_PATTERN, s)
    Bind({ i \in 0..(Len(s) - 1) : DoseMatchAt(s, i) # None }, LAMBDA starts :
        IF starts = {} THEN None ELSE DoseMatchAt(s, Min(starts)))

----------------------------------------------------------------------------
(* The extractors                                                          *)

extract_dose(t) ==
    Bind(Lower(t), LAMBDA text_lower :
    Bind(DoseSearch(text_lower), LAMBDA match :
        IF match # None
        THEN Return(Some([value |-> match[1].group1, unit |-> match[1].group2]))
        ELSE Return(None)))

AnyPatternIn(patterns, s) ==                     \* the inner for loop: some pattern in s
    \E p \in 1..Len(patterns) : Contains(patterns[p], s)

RECURSIVE FrequencyLoop(_, _)
FrequencyLoop(text_lower, k) ==                  \* for freq_key in check_order[k-1:]
    IF k > Len(check_order) THEN Return(None)
    ELSE LET freq_key == check_order[k] IN
         IF freq_key \notin DOMAIN FREQUENCY_PATTERNS
         THEN Raise("KeyError", freq_key)        \* self.FREQUENCY_PATTERNS[freq_key]
         ELSE IF AnyPatternIn(FREQUENCY_PATTERNS[freq_key], text_lower)
              THEN Return(Some(freq_key))
              ELSE FrequencyLoop(text_lower, k + 1)

extract_frequency(t) ==
    Bind(Lower(t), LAMBDA text_lower : FrequencyLoop(text_lower, 1))

RECURSIVE RouteLoop(_, _)
RouteLoop(text_lower, k) ==                      \* for ... in ROUTE_PATTERNS.items()
    IF k > Len(ROUTE_PATTERNS) THEN Return(None)
    ELSE IF AnyPatternIn(ROUTE_PATTERNS[k].patterns, text_lower)
         THEN Return(Some(ROUTE_PATTERNS[k].key))
         ELSE RouteLoop(text_lower, k + 1)

\* extract_route without text.lower()
extract_route_case_sensitive(t) == RouteLoop(t, 1)

extract_route(t) ==
    Bind(Lower(t), LAMBDA text_lower : RouteLoop(text_lower, 1))

RECURSIVE FindLoop(_, _, _)
FindLoop(text_lower, k, found) ==                \* for med in KNOWN_MEDICATIONS
    IF k > Len(KNOWN_MEDICATIONS) THEN found
    ELSE FindLoop(text_lower, k + 1,
                  IF Contains(KNOWN_MEDICATIONS[k], text_lower)
                  THEN Append(found, KNOWN_MEDICATIONS[k])
                  ELSE found)

\* find_medications without text.lower()
find_medications_case_sensitive(t) == Return(FindLoop(t, 1, <<>>))

find_medications(t) ==
    Bind(Lower(t), LAMBDA text_lower : Return(FindLoop(text_lower, 1, <<>>)))

\* is_negated looking before the last occurrence (rfind) instead of the first
is_negated_last_occurrence(t, med) ==
    Bind(Lower(t), LAMBDA text_lower :
    Bind(Lower(med), LAMBDA med_lower :
    Bind({ i \in 0..(Len(text_lower) - Len(med_lower)) :
             StartsAt(text_lower, med_lower, i) }, LAMBDA occurrences :
        IF occurrences = {} THEN Return(FALSE)
        ELSE Bind(CHOOSE i \in occurrences : \A j \in occurrences : j <= i,
                  LAMBDA med_pos :
             Bind(Max(0, med_pos - NEGATION_WINDOW), LAMBDA window_start :
             Bind(Slice(text_lower, window_start, med_pos), LAMBDA text_before :
                Return(AnyPatternIn(NEGATION_PATTERNS, text_before))))))))

is_negated(t, med) ==
    Bind(Lower(t), LAMBDA text_lower :
    Bind(Lower(med), LAMBDA med_lower :
    Bind(Find(text_lower, med_lower), LAMBDA med_pos :
        IF med_pos = -1 THEN Return(FALSE)
        ELSE Bind(Max(0, med_pos - NEGATION_WINDOW), LAMBDA window_start :
             Bind(Slice(text_lower, window_start, med_pos), LAMBDA text_before :
                Return(AnyPatternIn(NEGATION_PATTERNS, text_before)))))))

----------------------------------------------------------------------------
(* The aggregator                                                          *)

\* The dict literal of the loop body evaluates its values in order; the
\* first call that raises ends parse.
RECURSIVE ParseLoop(_, _, _, _)
ParseLoop(t, found_meds, k, acc) ==              \* for med_name in found_meds
    IF k > Len(found_meds) THEN Return(acc)
    ELSE Bind(extract_dose(t), LAMBDA dose :
            IF dose.kind = "raise" THEN dose ELSE
         Bind(extract_frequency(t), LAMBDA frequency :
            IF frequency.kind = "raise" THEN frequency ELSE
         Bind(extract_route(t), LAMBDA route :
            IF route.kind = "raise" THEN route ELSE
         Bind(Append(acc, [name |-> found_meds[k],
                           dose |-> dose.value,
                           frequency |-> frequency.value,
                           route |-> route.value]), LAMBDA medications_ :
            ParseLoop(t, found_meds, k + 1, medications_)))))

\* The outcome of parse(text): the list built by the loop, or the exception
\* that leaves the loop.
parse(t) ==
    Bind(find_medications(t).value, LAMBDA found_meds :
        ParseLoop(t, found_meds, 1, <<>>))

\* self.medications after a parse call with outcome out, when it was stored
\* before: the assignment self.medications = medications follows the loop,
\* so it is executed only when the loop has raised nothing.
\* parse storing its list only when it is not empty
StoredAfterParse_unless_empty(stored, out) ==
    IF out.kind = "return" /\ out.value # <<>> THEN out.value ELSE stored

StoredAfterParse(stored, out) ==
    IF out.kind = "return" THEN out.value ELSE stored

SummaryLine(med) ==                              \* one iteration of the loop of get_summary
    LET parts0 == <<Capitalize(med.name)>>
        parts1 == IF med.dose # None
                  THEN Append(parts0, med.dose[1].value \o med.dose[1].unit)
                  ELSE parts0
        parts2 == IF med.route # None THEN Append(parts1, med.route[1]) ELSE parts1
        parts3 == IF med.frequency # None
                  THEN Append(parts2, med.frequency[1]) ELSE parts2
    IN Join(" ", parts3)

get_summary(stored) ==
    IF stored = <<>> THEN Return("No medications found.")
    ELSE Return(Join("\n", [k \in 1..Len(stored) |-> SummaryLine(stored[k])]))

----------------------------------------------------------------------------
(* Input texts                                                             *)

MaxFrags == 2          \* fragments per text given to the extractors
MaxParseFrags == 2     \* fragments per text given to the parser instance
MaxPad == 52           \* longest filler between a negation cue and a medication

RECURSIVE TextsOf(_, _)
TextsOf(frags, n) ==   \* the concatenations of at most n fragments
    IF n = 0 THEN {""}
    ELSE LET shorter == TextsOf(frags, n - 1)
         IN shorter \cup { a \o f : a \in shorter, f \in frags }

RECURSIVE Pad(_)
Pad(k) == IF k = 0 THEN "" ELSE "-" \o Pad(k - 1)

\* sample_note of main()
SAMPLE_NOTE ==
    "\n    Patient is a 55 y/o male with Type 2 Diabetes and Hypertension.\n" \o
    "    Current medications:\n" \o
    "    - Metformin 500mg PO twice daily\n" \o
    "    - Lisinopril 10mg oral daily\n" \o
    "    - Aspirin 81mg by mouth daily\n    "

Notes == { SAMPLE_NOTE,
           "Metformin 500mg and Lisinopril 10mg",
           "Metformin 500mg PO twice daily" }

ExtractFragments == {
    "Metformin ", "Aspirin ",
    "500mg ", "1", "2.", "10 MG ",
    "twice daily ", "daily ", "QID ", "at night ",
    "IV ", "Intravenous ", "im ", "topically " }

ExtractTexts == TextsOf(ExtractFragments, MaxFrags) \cup Notes

ParseFragments == { "Aspirin 81mg ", "at bedtime " }

ParseTexts == TextsOf(ParseFragments, MaxParseFrags) \cup Notes

NegWords == { "", "stopped ", "Allergic to ", "aspirin" }

NegTexts == { a \o Pad(k) \o b \o c : a \in NegWords, k \in 0..MaxPad,
                                       b \in NegWords, c \in NegWords }

NegArgs == { "aspirin", "Aspirin", "insulin", "" }

ParseArgs == { "aspirin", "Metformin" }

----------------------------------------------------------------------------
(* The instance and its methods                                            *)

WatchTexts == Notes

\* The outcomes of the methods on the texts of ParseTexts, which the instance
\* below is called with over and over, computed once (every method's outcome
\* is a function of its arguments; get_summary's, of the stored list).
OnParseTexts ==
    [t \in ParseTexts |->
        [extract_dose |-> extract_dose(t),
         extract_frequency |-> extract_frequency(t),
         extract_route |-> extract_route(t),
         find_medications |-> find_medications(t),
         is_negated |-> [med \in ParseArgs |-> is_negated(t, med)],
         parse |-> parse(t)]]

Known(t) == t \in DOMAIN OnParseTexts

Constructed ==                                   \* MedicationParser()
    /\ medications = <<>>
    /\ op = "__init__"
    /\ text = ""
    /\ medication = ""
    /\ ret = Return(None)
    /\ lastParse = None
    /\ watched = <<>>

ExtractDose(t) ==
    /\ op' = "extract_dose"
    /\ text' = t
    /\ medication' = ""
    /\ ret' = IF Known(t) THEN OnParseTexts[t].extract_dose ELSE extract_dose(t)
    /\ UNCHANGED <<medications, lastParse, watch, watched>>

ExtractFrequency(t) ==
    /\ op' = "extract_frequency"
    /\ text' = t
    /\ medication' = ""
    /\ ret' = IF Known(t) THEN OnParseTexts[t].extract_frequency
              ELSE extract_frequency(t)
    /\ UNCHANGED <<medications, lastParse, watch, watched>>

ExtractRoute(t) ==
    /\ op' = "extract_route"
    /\ text' = t
    /\ medication' = ""
    /\ ret' = IF Known(t) THEN OnParseTexts[t].extract_route ELSE extract_route(t)
    /\ UNCHANGED <<medications, lastParse, watch, watched>>

FindMedications(t) ==
    /\ op' = "find_medications"
    /\ text' = t
    /\ medication' = ""
    /\ ret' = IF Known(t) THEN OnParseTexts[t].find_medications
              ELSE find_medications(t)
    /\ UNCHANGED <<medications, lastParse, watch, watched>>

IsNegated(t, med) ==
    /\ op' = "is_negated"
    /\ text' = t
    /\ medication' = med
    /\ ret' = IF Known(t) /\ med \in ParseArgs THEN OnParseTexts[t].is_negated[med]
              ELSE is_negated(t, med)
    /\ UNCHANGED <<medications, lastParse, watch, watched>>

Parse(t) ==
    LET out == IF Known(t) THEN OnParseTexts[t].parse ELSE parse(t) IN
    /\ op' = "parse"
    /\ text' = t
    /\ medication' = ""
    /\ ret' = out
    /\ medications' = StoredAfterParse(medications, out)
    /\ lastParse' = Some([text |-> t, out |-> out])
    /\ watched' = IF t # watch THEN watched
                  ELSE IF watched = <<>> THEN <<out>> ELSE <<out, watched[1]>>
    /\ UNCHANGED watch

GetSummary ==
    /\ op' = "get_summary"
    /\ text' = ""
    /\ medication' = ""
    /\ ret' = get_summary(medications)
    /\ UNCHANGED <<medications, lastParse, watch, watched>>

\* One parser instance, called by its user in any order with the texts of
\* ParseTexts.
Init ==
    /\ Constructed
    /\ watch \in WatchTexts

Next ==
    \/ \E t \in ParseTexts : Parse(t)
    \/ GetSummary
    \/ \E t \in ParseTexts : ExtractDose(t)
    \/ \E t \in ParseTexts : ExtractFrequency(t)
    \/ \E t \in ParseTexts : ExtractRoute(t)
    \/ \E t \in ParseTexts : FindMedications(t)
    \/ \E t \in ParseTexts, med \in ParseArgs : IsNegated(t, med)

Spec == Init /\ [][Next]_vars

\* The four extractors applied to a given text.
InitExtract ==
    /\ medications = <<>>
    /\ op = "__init__"
    /\ text \in ExtractTexts
    /\ medication = ""
    /\ ret = Return(None)
    /\ lastParse = None
    /\ watch = ""
    /\ watched = <<>>

NextExtract ==
    \/ ExtractDose(text)
    \/ ExtractFrequency(text)
    \/ ExtractRoute(text)
    \/ FindMedications(text)

SpecExtract == InitExtract /\ [][NextExtract]_vars

\* The negation check applied to a given text and medication name.
InitNeg ==
    /\ medications = <<>>
    /\ op = "__init__"
    /\ text \in NegTexts
    /\ medication \in NegArgs
    /\ ret = Return(None)
    /\ lastParse = None
    /\ watch = ""
    /\ watched = <<>>

NextNeg == IsNegated(text, medication)

SpecNeg == InitNeg /\ [][NextNeg]_vars

----------------------------------------------------------------------------
(* Properties                                                              *)

Stateless == { "extract_dose", "extract_frequency", "extract_route",
               "find_medications", "is_negated" }

InAnyCase(sub, t) == Contains(Lower(sub), Lower(t))   \* sub occurs in t, in any letter case

NoKnownMedicationIn(t) ==
    \E s \in {Lower(t)} :
        \A k \in 1..Len(KNOWN_MEDICATIONS) : ~Contains(KNOWN_MEDICATIONS[k], s)

NoFrequencyPhraseIn(t) ==
    \E s \in {Lower(t)} :
        \A key \in DOMAIN FREQUENCY_PATTERNS : ~AnyPatternIn(FREQUENCY_PATTERNS[key], s)

VocabularyIndex(name) ==
    CHOOSE k \in 1..Len(KNOWN_MEDICATIONS) : KNOWN_MEDICATIONS[k] = name

\* C1: no extractor signals an error: each of the five stateless methods
\* returns (a value, None, a list or a boolean) on every text, and
\* extract_frequency returns None when no phrase of any category occurs.
C1_NoExtractorSignalsError ==
    /\ op \in Stateless => ret.kind = "return"
    /\ (op = "extract_frequency" /\ NoFrequencyPhraseIn(text)) => ret = Return(None)

\* C2 as stated: on every text containing "twice daily" (and so "daily"),
\* extract_frequency returns "twice daily".
C2_TwiceDailyAlways ==
    (op = "extract_frequency" /\ Contains("twice daily", text) /\ Contains("daily", text))
        => ret = Return(Some("twice daily"))

HigherThanTwiceDaily ==
    { "qid", "four times daily", "4x daily", "tid", "three times daily", "3x daily" }

\* C2 amended: on every text containing "twice daily" and "daily" and no
\* phrase (in any case) of the four-times-daily or three-times-daily
\* categories, extract_frequency returns "twice daily"; and on no text
\* containing "twice daily" does it return the generic "daily".
C2_TwiceDailyUnlessHigherPriority ==
    /\ ( /\ op = "extract_frequency"
         /\ Contains("twice daily", text)
         /\ Contains("daily", text)
         /\ \A ph \in HigherThanTwiceDaily : ~InAnyCase(ph, text) )
       => ret = Return(Some("twice daily"))
    /\ (op = "extract_frequency" /\ Contains("twice daily", text))
          => ret # Return(Some("daily"))

\* "twice daily" wins over a phrase of a later category that precedes it in the text
C2_Witness ==
    /\ op = "extract_frequency"
    /\ text = "at night twice daily "
    /\ ret = Return(Some("twice daily"))

\* C3 as stated: on every text containing "500mg" (any case), extract_dose
\* returns value "500" and unit "mg".
C3_500mgAlways ==
    (op = "extract_dose" /\ InAnyCase("500mg", text))
        => ret = Return(Some([value |-> "500", unit |-> "mg"]))

\* the dose found is a leftmost number-plus-unit match of the string s
IsLeftmostDose(s, dose) ==
    \E i \in 0..(Len(s) - 1) :
        /\ \A j \in 0..(i - 1) : DoseCandidates(s, j) = {}
        /\ StartsAt(s, dose.value, i)
        /\ \E w \in 0..SpaceRun(s, i + Len(dose.value)) :
              StartsAt(s, dose.unit, i + Len(dose.value) + w)

\* C3 amended: extract_dose reports the leftmost number-plus-unit match of
\* the lowercased text (None when there is none); on a text containing
\* "500mg" (any case) that is value "500", unit "mg" whenever no digit
\* precedes the first "500mg".
C3_LeftmostDose ==
    op = "extract_dose" =>
        \E s \in {Lower(text)} : \E p \in {Find(s, "500mg")} :
            /\ ret.kind = "return"
            /\ (p # -1 /\ \A i \in 0..(p - 1) : ~IsDigit(CharAt(s, i)))
                  => ret.value = Some([value |-> "500", unit |-> "mg"])
            /\ ret.value = None <=> \A i \in 0..(Len(s) - 1) : DoseCandidates(s, i) = {}
            /\ ret.value # None => IsLeftmostDose(s, ret.value[1])

\* "500mg" is reported although another dose follows it
C3_Witness ==
    /\ op = "extract_dose"
    /\ text = "500mg 10 MG "
    /\ ret = Return(Some([value |-> "500", unit |-> "mg"]))

RouteOrder == <<"intravenous", "intramuscular", "subcutaneous", "topical">>

HasRoutePhrase(category, s) ==
    \E k \in 1..Len(ROUTE_PATTERNS) :
        /\ ROUTE_PATTERNS[k].key = category
        /\ AnyPatternIn(ROUTE_PATTERNS[k].patterns, s)

\* C4: on every text containing "IV" or "intravenous" in any case,
\* extract_route returns "intravenous"; in general it returns the first
\* category, in the order intravenous, intramuscular, subcutaneous, topical,
\* one of whose phrases occurs in the lowercased text, and None if none does.
C4_RouteByDeclarationOrder ==
    op = "extract_route" =>
        \E s \in {Lower(text)} :
            /\ ret.kind = "return"
            /\ (InAnyCase("IV", text) \/ InAnyCase("intravenous", text))
                  => ret.value = Some("intravenous")
            /\ \A c \in 1..Len(RouteOrder) :
                  ret.value = Some(RouteOrder[c])
                     <=> /\ HasRoutePhrase(RouteOrder[c], s)
                         /\ \A b \in 1..(c - 1) : ~HasRoutePhrase(RouteOrder[b], s)
            /\ ret.value = None
                  <=> \A c \in 1..Len(RouteOrder) : ~HasRoutePhrase(RouteOrder[c], s)

\* "IV" wins over an intramuscular phrase that precedes it in the text
C4_Witness ==
    /\ op = "extract_route"
    /\ text = "im IV "
    /\ ret = Return(Some("intravenous"))

\* C5: find_medications returns exactly the vocabulary names occurring in
\* the lowercased text, in vocabulary order, each once; the text
\* "Metformin 500mg and Lisinopril 10mg" yields <<"metformin", "lisinopril">>.
C5_FoundInVocabularyOrder ==
    op = "find_medications" =>
        \E s \in {Lower(text)} :
            /\ ret.kind = "return"
            /\ \A k \in 1..Len(KNOWN_MEDICATIONS) :
                  Contains(KNOWN_MEDICATIONS[k], s)
                     <=> \E i \in 1..Len(ret.value) : ret.value[i] = KNOWN_MEDICATIONS[k]
            /\ \A i \in 1..Len(ret.value) :
                  \E k \in 1..Len(KNOWN_MEDICATIONS) : ret.value[i] = KNOWN_MEDICATIONS[k]
            /\ \A i, j \in 1..Len(ret.value) :
                  i < j => VocabularyIndex(ret.value[i]) < VocabularyIndex(ret.value[j])
            /\ text = "Metformin 500mg and Lisinopril 10mg"
                  => ret.value = <<"metformin", "lisinopril">>

\* two names found, listed in vocabulary order, not in the order of the text
C5_Witness ==
    /\ op = "find_medications"
    /\ text = "Aspirin Metformin "
    /\ ret = Return(<<"metformin", "aspirin">>)

\* C6: every parse(text) call returns one record per name of
\* find_medications(text), in that order, all with the dose, frequency and
\* route that the extractors give on the whole text.
C6_OneRecordPerMedication ==
    op = "parse" =>
        /\ ret.kind = "return"
        /\ Len(ret.value) = Len(find_medications(text).value)
        /\ \A i \in 1..Len(ret.value) :
              ret.value[i] = [name |-> find_medications(text).value[i],
                              dose |-> extract_dose(text).value,
                              frequency |-> extract_frequency(text).value,
                              route |-> extract_route(text).value]

\* C7: get_summary returns "No medications found." before any parse call
\* and whenever the most recent parse call was on a text with no known
\* medication.
C7_NoMedicationsFound ==
    ( /\ op = "get_summary"
      /\ \/ lastParse = None
         \/ NoKnownMedicationIn(lastParse[1].text) )
        => ret = Return("No medications found.")

\* the summary is the fixed message although an earlier parse (of the
\* watched text) had produced records
C7_Witness ==
    /\ op = "get_summary"
    /\ ret = Return("No medications found.")
    /\ lastParse # None
    /\ NoKnownMedicationIn(lastParse[1].text)
    /\ watched # <<>>
    /\ watched[1].kind = "return"
    /\ watched[1].value # <<>>

\* C8: two parse calls with the same text, whatever is called in between,
\* both return the same list of records, and the stored list after the
\* second call is that list.
C8_ParseIdempotent ==
    Len(watched) = 2 =>
        /\ watched[1].kind = "return"
        /\ watched[2] = watched[1]
        /\ (op = "parse" /\ text = watch) => medications = watched[1].value

\* the most recent parse call returned rs, which is what is stored
StoredIs(call) == call.out.kind = "return" /\ medications = call.out.value

\* C10: the stored list is always the list of records of the most recent
\* parse call (the empty list before any): only parse changes it, every
\* parse call overwrites it, and get_summary renders exactly those records.
C10_StoredIsLastParse ==
    /\ lastParse = None => medications = <<>>
    /\ lastParse # None => StoredIs(lastParse[1])
    /\ (op = "get_summary" /\ lastParse # None)
          => ret = get_summary(lastParse[1].out.value)

NegationCueBefore(s, first) ==
    \E c \in 1..Len(NEGATION_PATTERNS), j \in 0..Len(s) :
        /\ StartsAt(s, NEGATION_PATTERNS[c], j)
        /\ j >= first - 50
        /\ j + Len(NEGATION_PATTERNS[c]) <= first

\* C9: is_negated(text, med) is true iff med occurs in text (case
\* insensitively) and some negation cue lies wholly within the at most 50
\* characters right before its first occurrence; so it is false when med is
\* absent, when nothing precedes it, when the cue starts more than 50
\* characters before it, and when only a later occurrence follows a cue.
C9_CueWithinWindow ==
    op = "is_negated" =>
        \E s \in {Lower(text)}, m \in {Lower(medication)} :
            \E occ \in {{ i \in 0..(Len(s) - Len(m)) : StartsAt(s, m, i) }} :
                /\ ret.kind = "return"
                /\ ret.value <=> (occ # {} /\ NegationCueBefore(s, Min(occ)))

\* the cue starts exactly 50 characters before the medication
C9_Witness ==
    /\ op = "is_negated"
    /\ medication = "Aspirin"
    /\ text = "stopped " \o Pad(42) \o "aspirin"
    /\ ret = Return(TRUE)

====
